---- MODULE Spec2Model ----
(***************************************************************************)
(* leanloader.c: a reference-counted runtime binding of GDI+ (env_t env,   *)
(* leanloader_env_init / leanloader_env_deinit) and the two entry points   *)
(* leanloader_load / leanloader_dispose that drive one                     *)
(* leanloader_image_info through decode, measure, allocate and lock.       *)
(*                                                                         *)
(* The library is single-threaded, so each entry point is one atomic       *)
(* action.  The native collaborators (kernel32, gdiplus.dll) are modelled  *)
(* by the record nat; what they return is drawn from small input sets.     *)
(***************************************************************************)
EXTENDS Integers, Sequences, FiniteSets, TLC

VARIABLES env, nat, infos, last, crashed, hst, disciplined, nOps

vars == <<env, nat, infos, last, crashed, hst, disciplined, nOps>>

(***************************************************************************)
(* Bounds of the model.                                                    *)
(***************************************************************************)
NumHandles == 2     \* leanloader_image_info structs the caller owns
MaxRef     == 2     \* leanloader_load is not called once env.refcnt reached this
MaxImg     == 2     \* distinct GDI+ bitmap handles the subsystem hands out
MaxBuf     == 2     \* distinct addresses GlobalAlloc hands out
MaxOps     == 4     \* calls of leanloader_load / leanloader_dispose in one run

Handles == 1..NumHandles
Imgs    == 1..MaxImg
Bufs    == 1..MaxBuf

\* the <<width, height>> GdipGetImageWidth / GdipGetImageHeight report for bitmap i
DimsOf(i) == IF i % 2 = 1 THEN <<10, 10>> ELSE <<32768, 32768>>

(***************************************************************************)
(* Program constants.                                                      *)
(***************************************************************************)
GPTR                 == 64          \* 0x0040
PixelFormat32bppARGB == 2498570     \* 0x0026200a
AlignMask            == 63          \* the 63 of "+ 63 & ~63"
BytesPerPixel        == 4
Half                 == 65536       \* 2^16: a u32 is kept as two 16-bit halves

\* the symbols leanloader_env_init looks up, in the order of lines 104-107 and
\* 110-117
KernelOrder == <<"LoadLibraryA", "FreeLibrary", "GlobalAlloc", "GlobalFree">>
GdipOrder   == <<"GdiplusStartup", "GdiplusShutdown", "GdipCreateBitmapFromFile",
                "GdipDisposeImage", "GdipGetImageWidth", "GdipGetImageHeight",
                "GdipBitmapLockBits", "GdipBitmapUnlockBits">>

KernelSyms == {KernelOrder[i] : i \in DOMAIN KernelOrder}
GdipSyms   == {GdipOrder[i] : i \in DOMAIN GdipOrder}

(***************************************************************************)
(* u32 arithmetic.  A u32 is [hi, lo] with value hi * 2^16 + lo, so that   *)
(* products wrap modulo 2^32 exactly as the C expressions do.              *)
(***************************************************************************)
U32(n) == [hi |-> (n \div Half) % Half, lo |-> n % Half]

\* the full 32-bit product of two 16-bit halves
Mul16(a, b) ==
    LET p1  == a * (b % 256)
        p2  == a * (b \div 256)
        mid == (p2 % 256) * 256 + p1
    IN  [hi |-> (p2 \div 256) + (mid \div Half), lo |-> mid % Half]

U32Mul(x, y) ==
    LET ll == Mul16(x.lo, y.lo)
    IN  [hi |-> (ll.hi + Mul16(x.lo, y.hi).lo + Mul16(x.hi, y.lo).lo) % Half,
         lo |-> ll.lo]

U32Add(x, y) ==
    LET s == x.lo + y.lo
    IN  [hi |-> (x.hi + y.hi + (s \div Half)) % Half, lo |-> s % Half]

\* x & ~mask for a mask of the form 2^k - 1 below 2^16
U32AndNot(x, mask) == [hi |-> x.hi, lo |-> x.lo - (x.lo % (mask + 1))]

\* conversion of a u32 to i32 (two's complement)
I32(x) == IF x.hi >= Half \div 2 THEN (x.hi - Half) * Half + x.lo
                                 ELSE x.hi * Half + x.lo

\* u32 allocSize = (info->bd.w * info->bd.h * 4) + 63 & ~63;
AllocSize(w, h) ==
    U32AndNot(U32Add(U32Mul(U32Mul(U32(w), U32(h)), U32(BytesPerPixel)),
                     U32(AlignMask)),
              AlignMask)

\* info->bd.stride = info->bd.w * 4;
Stride(w) == I32(U32Mul(U32(w), U32(BytesPerPixel)))

(***************************************************************************)
(* The machine state one entry point runs on: the global env, the native   *)
(* world nat, the caller's struct info, the trace of what it did so far    *)
(* (calls: native calls, stores to the fields gpbitmap and bd.ptr, entries *)
(* into leanloader_env_init / leanloader_env_deinit), the value the last   *)
(* native call returned (st), the entry point's return value (ret, -1      *)
(* while it has not returned) and whether the process died.                *)
(***************************************************************************)
Machine(e, n, i) ==
    [env |-> e, nat |-> n, info |-> i, calls |-> <<>>, st |-> 0, ret |-> -1,
     crashed |-> FALSE]

Log(m, fn, arg, res, how) ==
    [m EXCEPT !.calls = Append(@, [fn |-> fn, arg |-> arg, res |-> res, how |-> how]),
              !.st = res]

\* calling through a function pointer that GetProcAddress left null
NullCall(m, fn) == [Log(m, fn, 0, 0, "null") EXCEPT !.crashed = TRUE]

\* a call the collaborator gives no meaning to (stale handle, freed memory,
\* unloaded module): the process dies or carries on, the world unchanged
Undefined(m, inp, fn, arg) ==
    [Log(m, fn, arg, 0, "ub") EXCEPT !.crashed = inp.ubCrash]

Event(m, fn, arg, res) ==
    [m EXCEPT !.calls = Append(@, [fn |-> fn, arg |-> arg, res |-> res, how |-> "ok"])]

SetInfo(m, f, v) == IF m.crashed THEN m ELSE [m EXCEPT !.info[f] = v]

\* a store to info->gpbitmap or info->bd.ptr, kept in the trace
Store(m, f, v) == IF m.crashed THEN m ELSE Event(SetInfo(m, f, v), "store", f, v)
Ret(m, v)        == IF m.crashed THEN m ELSE [m EXCEPT !.ret = v]
Ok(m)            == ~m.crashed /\ m.st = 0

GdipUsable(m) == m.nat.mod > 0 /\ m.nat.session

\* the token GdiplusStartup hands out
SessionToken == 1

(***************************************************************************)
(* The native collaborators, as the typedefs of leanloader.c declare them. *)
(***************************************************************************)
\* typedef ptr (*LoadLibraryA_t)(char *name);
LoadLibraryA(m, inp) ==
    IF m.crashed THEN m
    ELSE IF "LoadLibraryA" \notin m.env.fns THEN NullCall(m, "LoadLibraryA")
    ELSE [Log(m, "LoadLibraryA", 0, inp.gdiplus, "ok") EXCEPT
              !.nat.mod = IF inp.gdiplus # 0 THEN @ + 1 ELSE @]

\* typedef void (*FreeLibrary_t)(ptr modulehandle);
FreeLibrary(m, inp, module) ==
    IF m.crashed THEN m
    ELSE IF "FreeLibrary" \notin m.env.fns THEN NullCall(m, "FreeLibrary")
    ELSE IF module = 0 \/ m.nat.mod = 0 THEN Undefined(m, inp, "FreeLibrary", module)
    ELSE [Log(m, "FreeLibrary", module, 0, "ok") EXCEPT
              !.nat.mod = @ - 1, !.nat.session = FALSE,
              !.nat.imgs = {}, !.nat.locks = {}]

\* typedef ptr (*GlobalAlloc_t)(u32 flags, u32 size);
GlobalAlloc(m, inp, flags, size) ==
    IF m.crashed THEN m
    ELSE IF "GlobalAlloc" \notin m.env.fns THEN NullCall(m, "GlobalAlloc")
    ELSE [Log(m, "GlobalAlloc", size, inp.buf, "ok") EXCEPT
              !.nat.bufs = IF inp.buf # 0 THEN @ \cup {inp.buf} ELSE @]

\* typedef u32 (*GlobalFree_t)(ptr ptr);
GlobalFree(m, inp, p) ==
    IF m.crashed THEN m
    ELSE IF "GlobalFree" \notin m.env.fns THEN NullCall(m, "GlobalFree")
    ELSE IF p \notin m.nat.bufs THEN Undefined(m, inp, "GlobalFree", p)
    ELSE [Log(m, "GlobalFree", p, 0, "ok") EXCEPT
              !.nat.bufs = @ \ {p},
              !.nat.locks = {l \in @ : l[2] # p}]

\* typedef u32 (*GdipStartup_t)(ptr* token, GdiplusStartupInput* input, ptr output);
GdipStartup(m, inp) ==
    IF m.crashed THEN m
    ELSE IF "GdiplusStartup" \notin m.env.fns THEN NullCall(m, "GdiplusStartup")
    ELSE IF m.nat.mod = 0 THEN Undefined(m, inp, "GdiplusStartup", 0)
    ELSE IF inp.startupSt = 0
         THEN [Log(m, "GdiplusStartup", 1, 0, "ok") EXCEPT
                   !.nat.session = TRUE,
                   !.nat.token = SessionToken,
                   !.env.token = SessionToken]
         ELSE Log(m, "GdiplusStartup", 1, inp.startupSt, "ok")

\* typedef u32 (*GdipShutdown_t)(ptr token);
GdipShutdown(m, inp, token) ==
    IF m.crashed THEN m
    ELSE IF "GdiplusShutdown" \notin m.env.fns THEN NullCall(m, "GdiplusShutdown")
    ELSE IF ~GdipUsable(m) \/ token # m.nat.token
         THEN Undefined(m, inp, "GdiplusShutdown", token)
    ELSE [Log(m, "GdiplusShutdown", token, 0, "ok") EXCEPT
              !.nat.session = FALSE, !.nat.token = 0,
              !.nat.imgs = {}, !.nat.locks = {}]

\* typedef u32 (*GdipCreateBitmapFromFile_t)(wchar* filename, ptr* bitmap);
GdipCreateBitmapFromFile(m, inp) ==
    IF m.crashed THEN m
    ELSE IF "GdipCreateBitmapFromFile" \notin m.env.fns
         THEN NullCall(m, "GdipCreateBitmapFromFile")
    ELSE IF ~GdipUsable(m) THEN Undefined(m, inp, "GdipCreateBitmapFromFile", 0)
    ELSE IF inp.createSt = 0
         THEN [Log(m, "GdipCreateBitmapFromFile", inp.img, 0, "ok") EXCEPT
                   !.nat.imgs = @ \cup {inp.img},
                   !.info.gpbitmap = inp.img]
         ELSE Log(m, "GdipCreateBitmapFromFile", 0, inp.createSt, "ok")

\* typedef u32 (*GdipDisposeImage_t)(ptr image);
GdipDisposeImage(m, inp, image) ==
    IF m.crashed THEN m
    ELSE IF "GdipDisposeImage" \notin m.env.fns THEN NullCall(m, "GdipDisposeImage")
    ELSE IF ~GdipUsable(m) \/ image \notin m.nat.imgs
         THEN Undefined(m, inp, "GdipDisposeImage", image)
    ELSE [Log(m, "GdipDisposeImage", image, 0, "ok") EXCEPT
              !.nat.imgs = @ \ {image},
              !.nat.locks = {l \in @ : l[1] # image}]

\* typedef u32 (*GdipGetImageWidth_t)(ptr image, u32* width);
GdipGetImageWidth(m, inp, image) ==
    IF m.crashed THEN m
    ELSE IF "GdipGetImageWidth" \notin m.env.fns THEN NullCall(m, "GdipGetImageWidth")
    ELSE IF ~GdipUsable(m) \/ image \notin m.nat.imgs
         THEN Undefined(m, inp, "GdipGetImageWidth", image)
    ELSE IF inp.widthSt = 0
         THEN [Log(m, "GdipGetImageWidth", image, 0, "ok") EXCEPT !.info.w = inp.w]
         ELSE Log(m, "GdipGetImageWidth", image, inp.widthSt, "ok")

\* typedef u32 (*GdipGetImageHeight_t)(ptr image, u32* height);
GdipGetImageHeight(m, inp, image) ==
    IF m.crashed THEN m
    ELSE IF "GdipGetImageHeight" \notin m.env.fns THEN NullCall(m, "GdipGetImageHeight")
    ELSE IF ~GdipUsable(m) \/ image \notin m.nat.imgs
         THEN Undefined(m, inp, "GdipGetImageHeight", image)
    ELSE IF inp.heightSt = 0
         THEN [Log(m, "GdipGetImageHeight", image, 0, "ok") EXCEPT !.info.h = inp.h]
         ELSE Log(m, "GdipGetImageHeight", image, inp.heightSt, "ok")

\* typedef u32 (*GdipBitmapLockBits_t)(ptr bitmap, ptr rect, u32 flags, u32 format,
\*                                     ptr lockedbitmapdata);
\* with ImageLockModeUserInputBuf the subsystem binds the caller's bd.ptr
GdipBitmapLockBits(m, inp, bitmap, bd) ==
    IF m.crashed THEN m
    ELSE IF "GdipBitmapLockBits" \notin m.env.fns THEN NullCall(m, "GdipBitmapLockBits")
    ELSE IF ~GdipUsable(m) \/ bitmap \notin m.nat.imgs \/ bd.ptr \notin m.nat.bufs
         THEN Undefined(m, inp, "GdipBitmapLockBits", bitmap)
    ELSE IF inp.lockSt = 0
         THEN [Log(m, "GdipBitmapLockBits", bitmap, 0, "ok") EXCEPT
                   !.nat.locks = @ \cup {<<bitmap, bd.ptr>>}]
         ELSE Log(m, "GdipBitmapLockBits", bitmap, inp.lockSt, "ok")

\* typedef u32 (*GdipBitmapUnlockBits_t)(ptr bitmap, ptr lockedbitmapdata);
GdipBitmapUnlockBits(m, inp, bitmap, bd) ==
    IF m.crashed THEN m
    ELSE IF "GdipBitmapUnlockBits" \notin m.env.fns
         THEN NullCall(m, "GdipBitmapUnlockBits")
    ELSE IF ~GdipUsable(m) \/ <<bitmap, bd.ptr>> \notin m.nat.locks
         THEN Undefined(m, inp, "GdipBitmapUnlockBits", bitmap)
    ELSE [Log(m, "GdipBitmapUnlockBits", bitmap, 0, "ok") EXCEPT
              !.nat.locks = @ \ {<<bitmap, bd.ptr>>}]

(***************************************************************************)
(* static i32 leanloader_env_init()                                        *)
(***************************************************************************)
\* env.X = env.GetProcAddress(module, "X"): the pointer is null (res 0) when the
\* module does not export X
GetProcAddress(m, inp, sym) ==
    IF sym \in inp.nullSyms
    THEN [Event(m, "GetProcAddress", sym, 0) EXCEPT !.env.fns = @ \ {sym}]
    ELSE [Event(m, "GetProcAddress", sym, 1) EXCEPT !.env.fns = @ \cup {sym}]

\* the lookups of the symbols order[k], order[k + 1], ... one after the other
RECURSIVE ResolveFrom(_, _, _, _)
ResolveFrom(m, inp, order, k) ==
    IF k > Len(order) THEN m
    ELSE ResolveFrom(GetProcAddress(m, inp, order[k]), inp, order, k + 1)

Resolve(m, inp, order) == IF m.crashed THEN m ELSE ResolveFrom(m, inp, order, 1)

IncRef(m) == IF m.crashed THEN m ELSE [m EXCEPT !.env.refcnt = @ + 1]

\* variant: line 123 is missing, a failed startup leaves gdiplus.dll loaded
EnvInitGdiplus_KeepsModule(m, inp) ==
    LET m1 == GdipStartup(Resolve(m, inp, GdipOrder), inp)
    IN  IF Ok(m1) THEN IncRef(m1) ELSE m1

\* lines 110-124: the branch taken when gdiplus.dll was loaded
EnvInitGdiplus(m, inp) ==
    LET m1 == GdipStartup(Resolve(m, inp, GdipOrder), inp)
    IN  IF Ok(m1) THEN IncRef(m1)
        ELSE FreeLibrary(m1, inp, m1.env.gdiplus)

\* variant: the branch of line 101 is taken on every call
leanloader_env_init_Restarts(m0, inp) ==
    IF m0.crashed THEN m0
    ELSE LET m  == Event(m0, "leanloader_env_init", 0, 0)
             m1 == [m EXCEPT !.env.kernel32 = 1]
             m2 == LoadLibraryA(Resolve(m1, inp, KernelOrder), inp)
             m3 == IF m2.crashed THEN m2 ELSE [m2 EXCEPT !.env.gdiplus = m2.st]
         IN  IF ~m3.crashed /\ m3.env.gdiplus # 0
             THEN EnvInitGdiplus(m3, inp)
             ELSE m3

\* variant: the kernel32 symbols are looked up again on every call
leanloader_env_init_Reresolves(m0, inp) ==
    IF m0.crashed THEN m0
    ELSE LET m == Event(m0, "leanloader_env_init", 0, 0) IN
         IF m.env.refcnt = 0
         THEN LET m1 == [m EXCEPT !.env.kernel32 = 1]
                  m2 == LoadLibraryA(Resolve(m1, inp, KernelOrder), inp)
                  m3 == IF m2.crashed THEN m2 ELSE [m2 EXCEPT !.env.gdiplus = m2.st]
              IN  IF ~m3.crashed /\ m3.env.gdiplus # 0
                  THEN EnvInitGdiplus(m3, inp)
                  ELSE m3
         ELSE IncRef(Resolve(m, inp, KernelOrder))

leanloader_env_init(m0, inp) ==
    IF m0.crashed THEN m0
    ELSE LET m == Event(m0, "leanloader_env_init", 0, 0) IN
         IF m.env.refcnt = 0
         THEN LET m1 == [m EXCEPT !.env.kernel32 = 1]
                  m2 == LoadLibraryA(Resolve(m1, inp, KernelOrder), inp)
                  m3 == IF m2.crashed THEN m2 ELSE [m2 EXCEPT !.env.gdiplus = m2.st]
              IN  IF ~m3.crashed /\ m3.env.gdiplus # 0
                  THEN EnvInitGdiplus(m3, inp)
                  ELSE m3
         ELSE IncRef(m)

(***************************************************************************)
(* static i32 leanloader_env_deinit()                                      *)
(***************************************************************************)
\* variant: "if (env.refcnt > 1)", the last reference is never given back
leanloader_env_deinit_KeepsLast(m0, inp) ==
    IF m0.crashed THEN m0
    ELSE LET m == Event(m0, "leanloader_env_deinit", 0, 0) IN
         IF m.env.refcnt > 1 THEN [m EXCEPT !.env.refcnt = @ - 1] ELSE m

\* variant: line 138 is missing, gdiplus.dll stays loaded after the shutdown
leanloader_env_deinit_KeepsModule(m0, inp) ==
    IF m0.crashed THEN m0
    ELSE LET m == Event(m0, "leanloader_env_deinit", 0, 0) IN
         IF m.env.refcnt > 0
         THEN LET m1 == [m EXCEPT !.env.refcnt = @ - 1]
              IN  IF m1.env.refcnt = 0 THEN GdipShutdown(m1, inp, m1.env.token)
                                       ELSE m1
         ELSE m

\* variant: the test of line 136 is missing, every release ends the session
leanloader_env_deinit_AlwaysShutsDown(m0, inp) ==
    IF m0.crashed THEN m0
    ELSE LET m == Event(m0, "leanloader_env_deinit", 0, 0) IN
         IF m.env.refcnt > 0
         THEN LET m1 == [m EXCEPT !.env.refcnt = @ - 1]
                  m2 == GdipShutdown(m1, inp, m1.env.token)
              IN  FreeLibrary(m2, inp, m2.env.gdiplus)
         ELSE m

leanloader_env_deinit(m0, inp) ==
    IF m0.crashed THEN m0
    ELSE LET m == Event(m0, "leanloader_env_deinit", 0, 0) IN
         IF m.env.refcnt > 0
         THEN LET m1 == [m EXCEPT !.env.refcnt = @ - 1]
              IN  IF m1.env.refcnt = 0
                  THEN LET m2 == GdipShutdown(m1, inp, m1.env.token)
                       IN  FreeLibrary(m2, inp, m2.env.gdiplus)
                  ELSE m1
         ELSE m

(***************************************************************************)
(* i32 leanloader_load(leanloader_image_info* info)                        *)
(***************************************************************************)
\* lines 161-174: set up the BitmapData and lock the bits into the buffer
LoadLock(m, inp) ==
    LET m1 == SetInfo(SetInfo(m, "PixelFormat", PixelFormat32bppARGB),
                      "stride", Stride(m.info.w))
        m2 == GdipBitmapLockBits(m1, inp, m1.info.gpbitmap, m1.info)
    IN  IF Ok(m2) THEN Ret(m2, 1)
        ELSE GlobalFree(m2, inp, m2.info.ptr)

\* lines 154-175: allocate the pixel buffer
LoadAllocate(m, inp) ==
    LET m1 == GlobalAlloc(m, inp, GPTR, AllocSize(m.info.w, m.info.h))
        m2 == Store(m1, "ptr", m1.st)
    IN  IF ~m2.crashed /\ m2.info.ptr # 0 THEN LoadLock(m2, inp) ELSE m2

\* variant: the status of GdipGetImageHeight (line 153) is not looked at
LoadMeasure_IgnoresHeightStatus(m, inp) ==
    LET m1 == GdipGetImageWidth(m, inp, m.info.gpbitmap)
    IN  IF Ok(m1)
        THEN LoadAllocate(GdipGetImageHeight(m1, inp, m1.info.gpbitmap), inp)
        ELSE m1

\* variant: lines 150 and 152 swapped, the height is asked for first
LoadMeasure_HeightFirst(m, inp) ==
    LET m1 == GdipGetImageHeight(m, inp, m.info.gpbitmap)
    IN  IF Ok(m1)
        THEN LET m2 == GdipGetImageWidth(m1, inp, m1.info.gpbitmap)
             IN  IF Ok(m2) THEN LoadAllocate(m2, inp) ELSE m2
        ELSE m1

\* lines 150-177: measure the decoded image
LoadMeasure(m, inp) ==
    LET m1 == GdipGetImageWidth(m, inp, m.info.gpbitmap)
    IN  IF Ok(m1)
        THEN LET m2 == GdipGetImageHeight(m1, inp, m1.info.gpbitmap)
             IN  IF Ok(m2) THEN LoadAllocate(m2, inp) ELSE m2
        ELSE m1

\* lines 148-179: decode, and dispose the image unless the load returned 1
LoadDecode(m, inp) ==
    LET m1 == GdipCreateBitmapFromFile(m, inp)
    IN  IF Ok(m1)
        THEN LET m2 == LoadMeasure(m1, inp)
             IN  IF m2.ret = 1 THEN m2
                 ELSE GdipDisposeImage(m2, inp, m2.info.gpbitmap)
        ELSE m1

\* variant: the entry also clears info->bd.ptr
leanloader_load_ClearsBuffer(m, inp) ==
    LET m1 == leanloader_env_init(Store(Store(m, "gpbitmap", 0), "ptr", 0), inp)
        m2 == IF ~m1.crashed /\ m1.env.refcnt # 0 THEN LoadDecode(m1, inp) ELSE m1
    IN  IF m2.ret = 1 THEN m2 ELSE Ret(m2, 0)

leanloader_load(m, inp) ==
    LET m1 == leanloader_env_init(Store(m, "gpbitmap", 0), inp)
        m2 == IF ~m1.crashed /\ m1.env.refcnt # 0 THEN LoadDecode(m1, inp) ELSE m1
    IN  IF m2.ret = 1 THEN m2 ELSE Ret(m2, 0)

(***************************************************************************)
(* i32 leanloader_dispose(leanloader_image_info* info)                     *)
(***************************************************************************)
\* variant: lines 188 and 189 swapped, the buffer is freed while still locked
DisposeBuffer_FreesBeforeUnlock(m, inp) ==
    IF ~m.crashed /\ m.info.ptr # 0
    THEN LET m1 == GlobalFree(m, inp, m.info.ptr)
             m2 == GdipBitmapUnlockBits(m1, inp, m1.info.gpbitmap, m1.info)
         IN  Store(m2, "ptr", 0)
    ELSE m

\* lines 187-191
DisposeBuffer(m, inp) ==
    IF ~m.crashed /\ m.info.ptr # 0
    THEN LET m1 == GdipBitmapUnlockBits(m, inp, m.info.gpbitmap, m.info)
             m2 == GlobalFree(m1, inp, m1.info.ptr)
         IN  Store(m2, "ptr", 0)
    ELSE m

\* variant: line 193 "info->gpbitmap = 0" is missing
DisposeImage_KeepsHandle(m, inp) ==
    IF ~m.crashed /\ m.info.gpbitmap # 0
    THEN GdipDisposeImage(DisposeBuffer(m, inp), inp, m.info.gpbitmap)
    ELSE m

\* lines 186-194
DisposeImage(m, inp) ==
    IF ~m.crashed /\ m.info.gpbitmap # 0
    THEN LET m1 == DisposeBuffer(m, inp)
             m2 == GdipDisposeImage(m1, inp, m1.info.gpbitmap)
         IN  Store(m2, "gpbitmap", 0)
    ELSE m

leanloader_dispose(m, inp) ==
    Ret(leanloader_env_deinit(DisposeImage(m, inp), inp), 0)

(***************************************************************************)
(* What the collaborators may answer during one call.                      *)
(***************************************************************************)
\* the symbols GetProcAddress may leave unresolved (at most one per initialization)
Nullable == {"LoadLibraryA", "GdiplusStartup", "GdipGetImageWidth"}
NullChoices == {{}} \cup {{s} : s \in Nullable}

InitInputs(e) ==
    IF e.refcnt = 0
    THEN [nullSyms : NullChoices, gdiplus : {1}, startupSt : {0, 1}]
         \cup [nullSyms : NullChoices, gdiplus : {0}, startupSt : {0}]
    ELSE {[nullSyms |-> {}, gdiplus |-> 1, startupSt |-> 0]}

\* first fit: the lowest address of pool that is not in use (none when all are),
\* so an address is handed out again as soon as it was freed
FirstFree(pool, used) ==
    IF pool \ used = {} THEN {}
    ELSE {CHOOSE a \in pool \ used : \A b \in pool \ used : a <= b}

\* what the pipeline's calls answer when at most the call `fail` fails: bitmap
\* handle i with its dimensions, buffer address b
StageInput(fail, i, b) ==
    [createSt |-> IF fail = "create" THEN 1 ELSE 0,
     img      |-> IF fail = "create" THEN 0 ELSE i,
     widthSt  |-> IF fail = "width" THEN 1 ELSE 0,
     w        |-> DimsOf(i)[1],
     heightSt |-> IF fail = "height" THEN 1 ELSE 0,
     h        |-> DimsOf(i)[2],
     buf      |-> IF fail = "alloc" THEN 0 ELSE b,
     lockSt   |-> IF fail = "lock" THEN 1 ELSE 0]

\* GDI+ cannot decode once all its bitmap handles are out, GlobalAlloc returns
\* null once all its addresses are
StageInputs(n) ==
    LET freeImgs == FirstFree(Imgs, n.imgs)
        freeBufs == FirstFree(Bufs, n.bufs)
    IN  {StageInput("create", 0, 0)}
        \cup {StageInput("alloc", i, 0) : i \in freeImgs}
        \cup {StageInput(f, i, b) :
                  f \in {"width", "height"}, i \in freeImgs,
                  b \in (IF freeBufs = {} THEN {0} ELSE freeBufs)}
        \cup {StageInput(f, i, b) :
                  f \in {"none", "lock"}, i \in freeImgs, b \in freeBufs}

\* the registry will be ready after leanloader_env_init with the answers ii
InitReady(e, n, ii) ==
    LET m == leanloader_env_init(Machine(e, n, [gpbitmap |-> 0]),
                                 ii @@ [ubCrash |-> FALSE])
    IN  ~m.crashed /\ m.env.refcnt # 0

\* the answers one leanloader_load can get; the pipeline's calls are only made
\* (line 147) when the registry is ready
LoadInputs(e, n) ==
    UNION {IF InitReady(e, n, ii) THEN {ii @@ si : si \in StageInputs(n)}
                                  ELSE {ii @@ StageInput("create", 0, 0)} :
           ii \in InitInputs(e)}

\* what can come of running an entry point on m with the answers inp: where it
\* makes a call of undefined behaviour, the process dies there or carries on
HasUndefined(m) == \E i \in DOMAIN m.calls : m.calls[i].how = "ub"

LoadOutcomes(m, inp) ==
    LET r == leanloader_load(m, inp @@ [ubCrash |-> FALSE])
    IN  IF HasUndefined(r) THEN {r, leanloader_load(m, inp @@ [ubCrash |-> TRUE])}
                           ELSE {r}

DisposeOutcomes(m) ==
    LET r == leanloader_dispose(m, [ubCrash |-> FALSE])
    IN  IF HasUndefined(r) THEN {r, leanloader_dispose(m, [ubCrash |-> TRUE])}
                           ELSE {r}

(***************************************************************************)
(* The caller.  last describes the latest call: which entry point (op) on  *)
(* which handle (h), what it returned (ret, -1 if the process died in it), *)
(* env.refcnt, env and the struct when it was entered (refBefore,         *)
(* envBefore, before), what hst[h] was, and its trace (calls).  hst[h]     *)
(* remembers the last thing done with handle h:                            *)
(*   "fresh"     zero-initialized, never used                              *)
(*   "loaded"    leanloader_load returned 1                                *)
(*   "failed"    leanloader_load returned 0                                *)
(*   "disposed"  disposed, the load before it having returned 1            *)
(*   "disposedF" disposed otherwise                                        *)
(* disciplined holds as long as every load was of a handle not awaiting    *)
(* its dispose and every dispose was of a handle awaiting it.              *)
(***************************************************************************)
Held(x) == x \in {"loaded", "failed"}

ZeroInfo == [w |-> 0, h |-> 0, stride |-> 0, PixelFormat |-> 0, ptr |-> 0,
             gpbitmap |-> 0]

\* static env_t env = {0};
ZeroEnv == [token |-> 0, refcnt |-> 0, kernel32 |-> 0, gdiplus |-> 0, fns |-> {}]

Init ==
    /\ env = ZeroEnv
    /\ nat = [mod |-> 0, session |-> FALSE, token |-> 0, imgs |-> {}, bufs |-> {},
              locks |-> {}]
    /\ infos = [h \in Handles |-> ZeroInfo]
    /\ last = [op |-> "none", h |-> 0, ret |-> 0, refBefore |-> 0, prev |-> "fresh",
               before |-> ZeroInfo, envBefore |-> ZeroEnv, calls |-> <<>>]
    /\ crashed = FALSE
    /\ hst = [h \in Handles |-> "fresh"]
    /\ disciplined = TRUE
    /\ nOps = 0

Commit(m, op, h, next, ok) ==
    /\ nOps' = nOps + 1
    /\ env' = m.env
    /\ nat' = m.nat
    /\ infos' = [infos EXCEPT ![h] = m.info]
    /\ crashed' = m.crashed
    /\ last' = [op |-> op, h |-> h, ret |-> m.ret, refBefore |-> env.refcnt,
                prev |-> hst[h], before |-> infos[h], envBefore |-> env,
                calls |-> m.calls]
    /\ hst' = [hst EXCEPT ![h] = next]
    /\ disciplined' = (disciplined /\ ok)

\* The structs are interchangeable (the library only sees the pointer it is
\* given), so the caller takes them into use in the order of their numbers.
InOrder(h) == IF h = 1 THEN TRUE ELSE hst[h - 1] # "fresh"

Load(h) ==
    /\ nOps < MaxOps
    /\ ~crashed
    /\ InOrder(h)
    /\ env.refcnt < MaxRef
    /\ \E inp \in LoadInputs(env, nat) :
          \E m \in LoadOutcomes(Machine(env, nat, infos[h]), inp) :
              Commit(m, "load", h, IF m.ret = 1 THEN "loaded" ELSE "failed",
                     ~Held(hst[h]))

Dispose(h) ==
    /\ nOps < MaxOps
    /\ ~crashed
    /\ InOrder(h)
    /\ \E m \in DisposeOutcomes(Machine(env, nat, infos[h])) :
          Commit(m, "dispose", h,
                 IF hst[h] \in {"loaded", "disposed"} THEN "disposed"
                                                      ELSE "disposedF",
                 Held(hst[h]))

Next == \E h \in Handles : Load(h) \/ Dispose(h)

Spec == Init /\ [][Next]_vars

(***************************************************************************)
(* Reading the trace of the latest call.                                   *)
(***************************************************************************)
\* a native or internal call by its name, a store by the field it writes
Label(c) == IF c.fn = "store" THEN c.arg ELSE c.fn
Fns(seq) == [i \in DOMAIN seq |-> Label(seq[i])]

IsNative(c) == c.fn \in KernelSyms \cup GdipSyms

\* the native calls of the latest call, in order
NativeFns == Fns(SelectSeq(last.calls, IsNative))

\* the trace without the symbol resolution and session calls of the registry
IsRegistryCall(c) ==
    c.fn \in {"GetProcAddress", "LoadLibraryA", "FreeLibrary", "GdiplusStartup",
              "GdiplusShutdown"}
NotRegistryCall(c) == ~IsRegistryCall(c)
ProtocolFns == Fns(SelectSeq(last.calls, NotRegistryCall))

Called(fn) == \E i \in DOMAIN last.calls : last.calls[i].fn = fn
Count(fn)  == Cardinality({i \in DOMAIN last.calls : last.calls[i].fn = fn})

\* fn was called and returned res
Answered(fn, res) ==
    \E i \in DOMAIN last.calls : last.calls[i].fn = fn /\ last.calls[i].res = res
\* fn was called and returned something else than res
AnsweredNot(fn, res) ==
    \E i \in DOMAIN last.calls : last.calls[i].fn = fn /\ last.calls[i].res # res

LoadReturned(v) == last.op = "load" /\ ~crashed /\ last.ret = v
DisposeReturned == last.op = "dispose" /\ ~crashed

\* the stage at which the latest leanloader_load gave up (0: none)
FailStage ==
    IF AnsweredNot("GdipBitmapLockBits", 0) THEN 5
    ELSE IF Answered("GlobalAlloc", 0) THEN 4
    ELSE IF AnsweredNot("GdipGetImageWidth", 0) \/ AnsweredNot("GdipGetImageHeight", 0)
         THEN 3
    ELSE IF AnsweredNot("GdipCreateBitmapFromFile", 0) THEN 2
    ELSE IF ~Called("GdipCreateBitmapFromFile") THEN 1
    ELSE 0

(***************************************************************************)
(* C1.  A leanloader_load that fails at stage 2 (decode), 3 (measure),     *)
(* 4 (allocate) or 5 (lock) returns with env.refcnt equal to its value     *)
(* when the call started: the reference taken by leanloader_env_init is    *)
(* released before the return.                                             *)
(***************************************************************************)
C1_FailedLoadRestoresRefcnt ==
    (LoadReturned(0) /\ FailStage \in 2..5) => env.refcnt = last.refBefore

(***************************************************************************)
(* C2.  After leanloader_load returned failure on a zero-initialized       *)
(* struct, gpbitmap and bd.ptr are both null; and a leanloader_dispose of  *)
(* a struct whose load failed calls none of GdipBitmapUnlockBits,          *)
(* GlobalFree, GdipDisposeImage.                                           *)
(***************************************************************************)
C2_FailedLoadLeavesInertHandle ==
    /\ (LoadReturned(0) /\ last.prev = "fresh") =>
           /\ infos[last.h].gpbitmap = 0
           /\ infos[last.h].ptr = 0
    /\ (last.op = "dispose" /\ last.prev = "failed" /\ disciplined) =>
           /\ ~Called("GdipBitmapUnlockBits")
           /\ ~Called("GlobalFree")
           /\ ~Called("GdipDisposeImage")

(***************************************************************************)
(* C3.  Once every leanloader_load has been matched by exactly one later   *)
(* leanloader_dispose of the same struct, env.refcnt is back at the value  *)
(* it had before the first load (0: env starts zeroed), whatever each load *)
(* returned and however the calls on different structs interleaved.        *)
(***************************************************************************)
AllMatched == \A h \in Handles : ~Held(hst[h])

C3_MatchedPairsRestoreRefcnt ==
    (disciplined /\ ~crashed /\ AllMatched) => env.refcnt = 0

\* two overlapping load/dispose pairs are over, one load having failed
C3_Witness ==
    /\ disciplined /\ ~crashed /\ AllMatched
    /\ DisposeReturned /\ last.refBefore = 1
    /\ \E a, b \in Handles : hst[a] = "disposed" /\ hst[b] = "disposedF"
    /\ env.refcnt = 0

(***************************************************************************)
(* C4.  While acquisitions overlap (env.refcnt above 1) they share one     *)
(* GDI+ session: GdiplusStartup is called once, by the load that takes     *)
(* env.refcnt from 0 to 1, GdiplusShutdown once, by the dispose that takes *)
(* it from 1 to 0, and no call that starts and ends with env.refcnt above  *)
(* 0 calls either.                                                         *)
(***************************************************************************)
C4_OneSessionWhileOverlapping ==
    /\ Called("GdiplusStartup") => (last.op = "load" /\ last.refBefore = 0)
    /\ Called("GdiplusShutdown") => (last.op = "dispose" /\ last.refBefore = 1)
    /\ (last.refBefore > 0 /\ env.refcnt > 0) =>
           (~Called("GdiplusStartup") /\ ~Called("GdiplusShutdown"))
    /\ (~crashed /\ last.refBefore = 0 /\ env.refcnt = 1) =>
           (last.op = "load" /\ Count("GdiplusStartup") = 1 /\ nat.session)
    /\ (~crashed /\ last.refBefore = 1 /\ env.refcnt = 0) =>
           (last.op = "dispose" /\ Count("GdiplusShutdown") = 1 /\ ~nat.session)
    /\ env.refcnt > 1 => nat.session

\* a second load succeeded while the first struct was still loaded
C4_Witness ==
    /\ LoadReturned(1) /\ last.refBefore = 1 /\ env.refcnt = 2
    /\ \A h \in Handles : hst[h] = "loaded"
    /\ ~Called("GdiplusStartup")

(***************************************************************************)
(* C5.  A second leanloader_dispose of a struct that was loaded and        *)
(* disposed finds gpbitmap and bd.ptr null and makes no native call other  *)
(* than those of the registry release: no GdipBitmapUnlockBits, no         *)
(* GlobalFree, no GdipDisposeImage.                                        *)
(***************************************************************************)
C5_SecondDisposeTouchesNothing ==
    /\ \A h \in Handles :
           (hst[h] = "disposed" /\ ~crashed) =>
               (infos[h].gpbitmap = 0 /\ infos[h].ptr = 0)
    /\ (last.op = "dispose" /\ last.prev = "disposed") =>
           /\ last.before.gpbitmap = 0 /\ last.before.ptr = 0
           /\ \A i \in DOMAIN NativeFns :
                  NativeFns[i] \in {"GdiplusShutdown", "FreeLibrary"}

\* the second dispose has returned, the first having freed image and buffer
C5_Witness ==
    /\ DisposeReturned /\ last.prev = "disposed"
    /\ disciplined = FALSE
    /\ last.refBefore = 1 /\ env.refcnt = 0

(***************************************************************************)
(* C6.  After every successful leanloader_load, with w and h as reported   *)
(* by GDI+, bd.stride = w * 4 and the size passed to GlobalAlloc is        *)
(* ceil(w * h * 4 / 64) * 64: a multiple of 64 not smaller than w * h * 4  *)
(* (448 for a 10 x 10 image).  Sizes are compared in units of 64 bytes.    *)
(***************************************************************************)
AllocArg ==
    last.calls[CHOOSE i \in DOMAIN last.calls : last.calls[i].fn = "GlobalAlloc"].arg

\* a u32 size in units of 64 bytes, rounded down
Blocks64(size) == size.hi * (Half \div 64) + (size.lo \div 64)

C6_StrideAndAllocSize ==
    LoadReturned(1) =>
        LET w == infos[last.h].w
            h == infos[last.h].h
        IN  /\ infos[last.h].stride = w * 4
            /\ AllocArg.lo % 64 = 0
            /\ Blocks64(AllocArg) = (w * h + 15) \div 16
            /\ Blocks64(AllocArg) * 16 >= w * h

(***************************************************************************)
(* C7.  leanloader_load returns 1 exactly when all five stages succeed     *)
(* (the registry is ready, GdipCreateBitmapFromFile, GdipGetImageWidth and *)
(* GdipGetImageHeight return 0, GlobalAlloc returns non-null and           *)
(* GdipBitmapLockBits returns 0); it then leaves gpbitmap and bd.ptr       *)
(* non-null and env.refcnt one higher than on entry.                       *)
(***************************************************************************)
RegistryReady == last.refBefore > 0 \/ Answered("GdiplusStartup", 0)

AllStagesSucceeded ==
    /\ RegistryReady
    /\ Answered("GdipCreateBitmapFromFile", 0)
    /\ Answered("GdipGetImageWidth", 0)
    /\ Answered("GdipGetImageHeight", 0)
    /\ AnsweredNot("GlobalAlloc", 0)
    /\ Answered("GdipBitmapLockBits", 0)
    /\ FailStage = 0

C7_SuccessIffAllStages ==
    (last.op = "load" /\ ~crashed) =>
        /\ last.ret \in {0, 1}
        /\ last.ret = 1 <=> AllStagesSucceeded
        /\ last.ret = 1 =>
               /\ infos[last.h].gpbitmap # 0
               /\ infos[last.h].ptr # 0
               /\ env.refcnt = last.refBefore + 1

\* a load has gone through all five stages and returned 1
C7_Witness ==
    /\ LoadReturned(1) /\ AllStagesSucceeded
    /\ last.refBefore = 0 /\ env.refcnt = 1
    /\ <<infos[last.h].gpbitmap, infos[last.h].ptr>> \in nat.locks

(***************************************************************************)
(* C8.  leanloader_dispose works in the fixed order GdipBitmapUnlockBits,  *)
(* GlobalFree, bd.ptr = 0, GdipDisposeImage, gpbitmap = 0, registry        *)
(* release; as claimed, the buffer steps happen whenever bd.ptr is         *)
(* non-null, the image steps whenever gpbitmap is non-null, the release on *)
(* every call and last.                                                    *)
(***************************************************************************)
BufferSteps == <<"GdipBitmapUnlockBits", "GlobalFree", "ptr">>
ImageSteps  == <<"GdipDisposeImage", "gpbitmap">>
ReleaseStep == <<"leanloader_env_deinit">>

C8_DisposeOrderAsClaimed ==
    DisposeReturned =>
        /\ ProtocolFns =
               (IF last.before.ptr # 0 THEN BufferSteps ELSE <<>>)
               \o (IF last.before.gpbitmap # 0 THEN ImageSteps ELSE <<>>)
               \o ReleaseStep
        /\ infos[last.h].ptr = 0
        /\ infos[last.h].gpbitmap = 0

(***************************************************************************)
(* C8, amended.  Same order, but the buffer steps are nested in the image  *)
(* steps: they happen whenever gpbitmap and bd.ptr are both non-null; with *)
(* gpbitmap null dispose leaves bd.ptr as it is and only releases the      *)
(* registry.                                                               *)
(***************************************************************************)
C8_DisposeOrder ==
    DisposeReturned =>
        /\ ProtocolFns =
               (IF last.before.gpbitmap # 0 /\ last.before.ptr # 0
                THEN BufferSteps ELSE <<>>)
               \o (IF last.before.gpbitmap # 0 THEN ImageSteps ELSE <<>>)
               \o ReleaseStep
        /\ infos[last.h].gpbitmap = 0
        /\ infos[last.h].ptr = (IF last.before.gpbitmap # 0 THEN 0 ELSE last.before.ptr)
        /\ env.refcnt = (IF last.refBefore > 0 THEN last.refBefore - 1 ELSE 0)

\* a loaded struct has been disposed: all six steps ran
C8_Witness ==
    /\ DisposeReturned /\ last.prev = "loaded"
    /\ last.before.gpbitmap # 0 /\ last.before.ptr # 0
    /\ ProtocolFns = BufferSteps \o ImageSteps \o ReleaseStep

(***************************************************************************)
(* C9.  Between calls, every struct with bd.ptr non-null has gpbitmap      *)
(* non-null and its buffer bound to that image by a successful             *)
(* GdipBitmapLockBits (not yet unlocked or freed), also after a load that  *)
(* failed at the lock stage.                                               *)
(***************************************************************************)
C9_BufferImpliesLockedImage ==
    ~crashed =>
        \A h \in Handles :
            infos[h].ptr # 0 =>
                /\ infos[h].gpbitmap # 0
                /\ <<infos[h].gpbitmap, infos[h].ptr>> \in nat.locks

(***************************************************************************)
(* C10.  A leanloader_load that fails at stage k releases what the earlier *)
(* stages committed, once each and in reverse order, and then the registry *)
(* reference: nothing but the reference for a decode failure,              *)
(* GdipDisposeImage for a measure or allocate failure, GlobalFree then     *)
(* GdipDisposeImage for a lock failure.                                    *)
(***************************************************************************)
IsCleanup(c) ==
    c.fn \in {"GdipBitmapUnlockBits", "GlobalFree", "GdipDisposeImage",
              "leanloader_env_deinit"}
CleanupFns == Fns(SelectSeq(last.calls, IsCleanup))

C10_FailedLoadUnwinds ==
    (LoadReturned(0) /\ FailStage \in 2..5) =>
        CleanupFns =
            (IF FailStage = 5 THEN <<"GlobalFree">> ELSE <<>>)
            \o (IF FailStage >= 3 THEN <<"GdipDisposeImage">> ELSE <<>>)
            \o ReleaseStep

(***************************************************************************)
(* C11.  When, in a leanloader_env_init entered with env.refcnt = 0, one   *)
(* of the twelve symbols resolves to null, the call fails (leanloader_load *)
(* returns 0) and leaves env.refcnt at 0; and no call, this one or a later *)
(* one, goes through a null function pointer.                              *)
(***************************************************************************)
NullResolved == Answered("GetProcAddress", 0)
CalledNull   == \E i \in DOMAIN last.calls : last.calls[i].how = "null"

C11_NullSymbolFailsInit ==
    /\ ~CalledNull
    /\ (last.op = "load" /\ last.refBefore = 0 /\ NullResolved) =>
           (~crashed /\ last.ret = 0 /\ env.refcnt = 0)

(***************************************************************************)
(* C12.  Whenever leanloader_env_init returns failure (0), env.refcnt is   *)
(* unchanged, still 0, and gdiplus.dll is not left loaded: when            *)
(* LoadLibraryA failed nothing was loaded and nothing is freed, and when   *)
(* GdiplusStartup returned a nonzero status the module loaded in this call *)
(* is freed exactly once before the return.                                *)
(***************************************************************************)
\* leanloader_env_init returned 0 to the latest leanloader_load
EnvInitFailed == LoadReturned(0) /\ ~Called("GdipCreateBitmapFromFile")

\* the calls of fn in the latest call
CallsOf(fn) == SelectSeq(last.calls, LAMBDA c : c.fn = fn)

C12_FailedInitLeavesNothing ==
    EnvInitFailed =>
        /\ last.refBefore = 0 /\ env.refcnt = 0
        /\ nat.mod = 0 /\ ~nat.session
        /\ Answered("LoadLibraryA", 0) =>
               (Count("LoadLibraryA") = 1 /\ ~Called("FreeLibrary"))
        /\ AnsweredNot("LoadLibraryA", 0) =>
               /\ AnsweredNot("GdiplusStartup", 0)
               /\ Count("FreeLibrary") = 1
               /\ CallsOf("FreeLibrary")[1].how = "ok"
               /\ CallsOf("FreeLibrary")[1].arg = CallsOf("LoadLibraryA")[1].res

\* GdiplusStartup has refused, the module was loaded and freed again
C12_Witness ==
    /\ EnvInitFailed /\ AnsweredNot("GdiplusStartup", 0)
    /\ Fns(SelectSeq(last.calls, IsRegistryCall))[Len(SelectSeq(last.calls, IsRegistryCall))]
           = "FreeLibrary"
    /\ nat.mod = 0

(***************************************************************************)
(* C13.  Between calls, env.refcnt is above 0 exactly when the GDI+        *)
(* session is active: gdiplus.dll is loaded (once more than freed), GDI+   *)
(* was started and not shut down since, and env.token is the token that    *)
(* GdiplusStartup returned.  With env.refcnt at 0 the module is not loaded *)
(* and no session is open.                                                 *)
(***************************************************************************)
SessionActive == nat.mod = 1 /\ nat.session /\ env.token = nat.token

C13_RefcntIffSession ==
    ~crashed =>
        /\ env.refcnt > 0 <=> SessionActive
        /\ env.refcnt = 0 => (nat.mod = 0 /\ ~nat.session)

\* a second session is open, the first one having been closed by a dispose
C13_Witness ==
    /\ LoadReturned(1) /\ last.refBefore = 0 /\ env.refcnt = 1
    /\ \E h \in Handles : hst[h] = "disposed"
    /\ SessionActive

(***************************************************************************)
(* C14.  leanloader_env_deinit lowers env.refcnt by exactly 1 when it is   *)
(* positive, and calls GdiplusShutdown with env.token and then FreeLibrary *)
(* exactly when that takes env.refcnt from 1 to 0; entered with env.refcnt *)
(* at 0 it changes nothing and makes no native call, so env.refcnt never   *)
(* goes below 0.                                                           *)
(***************************************************************************)
\* what the latest call did after entering leanloader_env_deinit
DeinitTail ==
    LET at == CHOOSE i \in DOMAIN last.calls : last.calls[i].fn = "leanloader_env_deinit"
    IN  SubSeq(last.calls, at + 1, Len(last.calls))

C14_ReleaseCountsDown ==
    /\ env.refcnt >= 0
    /\ DisposeReturned =>
           /\ Count("leanloader_env_deinit") = 1
           /\ env.refcnt = (IF last.refBefore > 0 THEN last.refBefore - 1 ELSE 0)
           /\ IF last.refBefore = 1
              THEN /\ Fns(DeinitTail) = <<"GdiplusShutdown", "FreeLibrary">>
                   /\ DeinitTail[1].arg = env.token
                   /\ DeinitTail[2].arg = env.gdiplus
              ELSE DeinitTail = <<>>

\* a release at env.refcnt = 0: the second dispose after the session ended
C14_Witness ==
    /\ DisposeReturned /\ last.refBefore = 0 /\ last.prev = "disposed"
    /\ env.refcnt = 0 /\ DeinitTail = <<>>

(***************************************************************************)
(* C15.  leanloader_env_init entered with env.refcnt above 0 only raises   *)
(* env.refcnt by 1 and returns success: it makes no GetProcAddress,        *)
(* LoadLibraryA or GdiplusStartup call and leaves env.token, the module    *)
(* handles and every resolved function pointer as they were.               *)
(***************************************************************************)
\* the trace entry that follows the entry into leanloader_env_init
AfterInit(calls) ==
    LET at == CHOOSE i \in DOMAIN calls : calls[i].fn = "leanloader_env_init"
    IN  IF at < Len(calls) THEN calls[at + 1].fn ELSE "return"

C15_ReadyInitOnlyCounts ==
    (last.op = "load" /\ last.envBefore.refcnt > 0) =>
        /\ env.refcnt = last.envBefore.refcnt + 1
        /\ env.token = last.envBefore.token
        /\ env.kernel32 = last.envBefore.kernel32
        /\ env.gdiplus = last.envBefore.gdiplus
        /\ env.fns = last.envBefore.fns
        /\ \A i \in DOMAIN last.calls :
               last.calls[i].fn \notin {"GetProcAddress", "LoadLibraryA",
                                        "GdiplusStartup"}
        /\ AfterInit(last.calls) = "GdipCreateBitmapFromFile"

\* a second load has gone through leanloader_env_init while the first one's
\* session was open
C15_Witness ==
    /\ last.op = "load" /\ last.refBefore = 1 /\ env.refcnt = 2
    /\ ~Called("GetProcAddress") /\ Called("GdipCreateBitmapFromFile")

(***************************************************************************)
(* C16.  Within one leanloader_load the calls come in the order            *)
(* leanloader_env_init, GdipCreateBitmapFromFile, GdipGetImageWidth,       *)
(* GdipGetImageHeight, GlobalAlloc, GdipBitmapLockBits, each made only if  *)
(* every earlier one succeeded; when leanloader_env_init fails the load    *)
(* makes no GDI+ image call and no allocator call at all.                  *)
(***************************************************************************)
StageOrder == <<"leanloader_env_init", "GdipCreateBitmapFromFile",
                "GdipGetImageWidth", "GdipGetImageHeight", "GlobalAlloc",
                "GdipBitmapLockBits">>
IsStage(c) == \E k \in DOMAIN StageOrder : c.fn = StageOrder[k]

\* the stage calls of the latest call, in order
StageCalls == SelectSeq(last.calls, IsStage)

\* the k-th stage call of the latest leanloader_load succeeded
StageSucceeded(k) ==
    IF k = 1 THEN env.refcnt # 0
    ELSE IF StageCalls[k].fn = "GlobalAlloc" THEN StageCalls[k].res # 0
    ELSE StageCalls[k].res = 0

ImageOrAllocatorFns ==
    (GdipSyms \ {"GdiplusStartup", "GdiplusShutdown"}) \cup {"GlobalAlloc", "GlobalFree"}

C16_StagesInOrder ==
    last.op = "load" =>
        /\ Len(StageCalls) \in 1..Len(StageOrder)
        /\ Fns(StageCalls) = SubSeq(StageOrder, 1, Len(StageCalls))
        /\ \A k \in 2..Len(StageCalls) : StageSucceeded(k - 1)
        /\ env.refcnt = 0 =>
               \A i \in DOMAIN last.calls : last.calls[i].fn \notin ImageOrAllocatorFns

\* all six stages were gone through, the last one failing
C16_Witness ==
    /\ LoadReturned(0) /\ FailStage = 5
    /\ Len(StageCalls) = Len(StageOrder)

(***************************************************************************)
(* C17.  For callers that start from zeroed structs and follow every       *)
(* leanloader_load, whatever it returned, by exactly one leanloader_dispose*)
(* of the same struct: no GDI+ image function (GdipCreateBitmapFromFile,   *)
(* GdipGetImageWidth, GdipGetImageHeight, GdipBitmapLockBits,              *)
(* GdipBitmapUnlockBits, GdipDisposeImage) is called while env.refcnt is 0 *)
(* or after the session's GdiplusShutdown / FreeLibrary, and every struct  *)
(* with a non-null gpbitmap is covered by env.refcnt above 0.              *)
(***************************************************************************)
ImageFns == GdipSyms \ {"GdiplusStartup", "GdiplusShutdown"}

CalledImageFn == \E i \in DOMAIN last.calls : last.calls[i].fn \in ImageFns

\* an image function was called after the session was ended in the same call
ImageFnAfterShutdown ==
    \E i, j \in DOMAIN last.calls :
        /\ i < j
        /\ last.calls[i].fn \in {"GdiplusShutdown", "FreeLibrary"}
        /\ last.calls[j].fn \in ImageFns

C17_ImageCallsCovered ==
    disciplined =>
        /\ (last.op = "dispose" /\ CalledImageFn) => last.refBefore > 0
        /\ (last.op = "load" /\ CalledImageFn) => env.refcnt > 0
        /\ ~ImageFnAfterShutdown
        /\ ~crashed => \A h \in Handles : infos[h].gpbitmap # 0 => env.refcnt > 0

(***************************************************************************)
(* C18.  leanloader_load sets gpbitmap to null before anything else, and a *)
(* load that fails at stage 1 (registry), 2 (decode) or 3 (measure) leaves *)
(* bd.ptr, bd.stride and bd.PixelFormat exactly as they were on entry:     *)
(* they are written only once stage 4 (allocate) is reached.               *)
(***************************************************************************)
BufferFieldsKept ==
    /\ infos[last.h].ptr = last.before.ptr
    /\ infos[last.h].stride = last.before.stride
    /\ infos[last.h].PixelFormat = last.before.PixelFormat

C18_EarlyFailureKeepsBuffer ==
    last.op = "load" =>
        /\ last.calls[1] = [fn |-> "store", arg |-> "gpbitmap", res |-> 0, how |-> "ok"]
        /\ (LoadReturned(0) /\ FailStage \in 1..3) => BufferFieldsKept
        /\ ~Called("GlobalAlloc") => BufferFieldsKept

\* a struct that still carried a buffer pointer and a stride was loaded again
\* and the load failed before the allocation
C18_Witness ==
    /\ LoadReturned(0) /\ FailStage \in 2..3
    /\ last.before.ptr # 0 /\ last.before.stride # 0
    /\ BufferFieldsKept
====
